---- MODULE Spec2Model ----
(***************************************************************************)
(* Model of klippy/extras/just_a_quad_gantry_level.py: the QuadGantryLevel *)
(* object, its command JUST_A_QUAD_GANTRY_LEVEL and the probe_finalize     *)
(* callback with its helpers linefit and plot.                             *)
(*                                                                         *)
(* Numbers.  The program computes with Python floats.  The model computes  *)
(* with exact rationals, a pair <<n, d>> in lowest terms with d > 0, so    *)
(* that equality of two numbers is equality of the pairs.  Rounding of the *)
(* floating-point operations is not modelled; division by zero is (it      *)
(* raises ZeroDivisionError in Python, for floats as for ints).            *)
(*                                                                         *)
(* Indexing follows the source: lists are functions on 0..n-1, so that     *)
(* positions[3][0] in the source is positions[3][0] here.                  *)
(***************************************************************************)
EXTENDS Integers, Sequences, FiniteSets, TLC

----------------------------------------------------------------------------
(* Bounds of the model. *)

\* probe auxiliary-axis samples are drawn from 0..MaxAux
MaxAux == 1
\* the configured retry count is drawn from 0..MaxRetries
MaxRetries == 1

(* Program constants. *)

\* default of max_adjust
DefaultMaxAdjust == 4
\* default of horizontal_move_a
DefaultHorizontalMoveA == 5
\* number of probe points the constructor insists on
NumProbePoints == 4
\* number of gantry corners the constructor insists on at least
MinGantryCorners == 2

----------------------------------------------------------------------------
(* Exact rational arithmetic standing for Python's float arithmetic. *)

Abs(n) == IF n < 0 THEN -n ELSE n

RECURSIVE GCD(_, _)
GCD(a, b) == IF b = 0 THEN a ELSE GCD(b, a % b)

\* the rational n/d (d # 0) in lowest terms with a positive denominator
Norm(n, d) ==
    LET g == GCD(Abs(n), Abs(d))
        s == IF d < 0 THEN -1 ELSE 1
    IN  <<(s * n) \div g, (s * d) \div g>>

R(n) == <<n, 1>>
Zero == R(0)

RAdd(a, b) == Norm(a[1] * b[2] + b[1] * a[2], a[2] * b[2])
RSub(a, b) == Norm(a[1] * b[2] - b[1] * a[2], a[2] * b[2])
RMul(a, b) == Norm(a[1] * b[1], a[2] * b[2])
\* a / b, for b # 0 only
RDiv(a, b) == Norm(a[1] * b[2], a[2] * b[1])
RLess(a, b) == a[1] * b[2] < b[1] * a[2]
RLeq(a, b) == a[1] * b[2] <= b[1] * a[2]
RAbs(a) == <<Abs(a[1]), a[2]>>

\* Python's sum(l) of a list l indexed 0..n-1
RECURSIVE SumTo(_, _)
SumTo(l, n) == IF n = 0 THEN Zero ELSE RAdd(SumTo(l, n - 1), l[n - 1])
sum(l) == SumTo(l, Cardinality(DOMAIN l))

\* Python's len(l)
len(l) == Cardinality(DOMAIN l)

\* Python's max(l) and min(l) of a non-empty list
max(l) == CHOOSE v \in {l[i] : i \in DOMAIN l} : \A i \in DOMAIN l : RLeq(l[i], v)
min(l) == CHOOSE v \in {l[i] : i \in DOMAIN l} : \A i \in DOMAIN l : RLeq(v, l[i])

----------------------------------------------------------------------------
(* linefit and plot. *)

\* a returned (slope, intercept) pair, and a raised exception
Returned(m, b) == [raised |-> "none", m |-> m, b |-> b]
Raised(e) == [raised |-> e]

\* linefit without the equal-height short circuit
linefit_no_guard(p1, p2) ==
    IF p2[0] = p1[0]
    THEN Raised("ZeroDivisionError")
    ELSE LET m == RDiv(RSub(p2[1], p1[1]), RSub(p2[0], p1[0]))
             b == RSub(p1[1], RMul(m, p1[0]))
         IN  Returned(m, b)

\* linefit anchoring the intercept at the second point's x
linefit_wrong_b(p1, p2) ==
    IF p1[1] = p2[1]
    THEN Returned(Zero, p1[1])
    ELSE IF p2[0] = p1[0]
         THEN Raised("ZeroDivisionError")
         ELSE LET m == RDiv(RSub(p2[1], p1[1]), RSub(p2[0], p1[0]))
                  b == RSub(p1[1], RMul(m, p2[0]))
              IN  Returned(m, b)

\* linefit returning the first point's x as the intercept of a flat line
linefit_returns_x(p1, p2) ==
    IF p1[1] = p2[1]
    THEN Returned(Zero, p1[0])
    ELSE IF p2[0] = p1[0]
         THEN Raised("ZeroDivisionError")
         ELSE LET m == RDiv(RSub(p2[1], p1[1]), RSub(p2[0], p1[0]))
                  b == RSub(p1[1], RMul(m, p1[0]))
              IN  Returned(m, b)

\* QuadGantryLevel.linefit: p1, p2 are [x, height] pairs
linefit(p1, p2) ==
    IF p1[1] = p2[1]
    THEN Returned(Zero, p1[1])
    ELSE IF p2[0] = p1[0]
         THEN Raised("ZeroDivisionError")
         ELSE LET m == RDiv(RSub(p2[1], p1[1]), RSub(p2[0], p1[0]))
                  b == RSub(p1[1], RMul(m, p1[0]))
              IN  Returned(m, b)

\* QuadGantryLevel.plot: f is a returned (slope, intercept)
plot(f, x) == RAdd(RMul(f.m, x), f.b)

\* Python lists [a, b] and [a, b, c, d], indexed from 0
Pair(a, b) == (0 :> a) @@ (1 :> b)
List4(a, b, c, d) == (0 :> a) @@ (1 :> b) @@ (2 :> c) @@ (3 :> d)

----------------------------------------------------------------------------
(* The computation of probe_finalize up to the adjustment vector. *)

\* a_positions: the probe samples mirrored about horizontal_move_a
mirror(horizontal_move_a, positions) ==
    List4(RSub(horizontal_move_a, positions[0][3]),
          RSub(horizontal_move_a, positions[1][3]),
          RSub(horizontal_move_a, positions[2][3]),
          RSub(horizontal_move_a, positions[3][3]))

\* the four actuator heights with actuators 2 and 3 taking corners 0 and 1
a_height_uncrossed(slope_y_s01, slope_y_s23, gantry_corners) ==
    List4(plot(slope_y_s01, gantry_corners[0][1]),
          plot(slope_y_s01, gantry_corners[1][1]),
          plot(slope_y_s23, gantry_corners[0][1]),
          plot(slope_y_s23, gantry_corners[1][1]))

\* a_height: the height of each stepper
a_height_of(slope_y_s01, slope_y_s23, gantry_corners) ==
    List4(plot(slope_y_s01, gantry_corners[0][1]),
          plot(slope_y_s01, gantry_corners[1][1]),
          plot(slope_y_s23, gantry_corners[1][1]),
          plot(slope_y_s23, gantry_corners[0][1]))

\* the average taken over three of the four steppers' count
a_ave_div3(a_height) == RDiv(sum(a_height), R(len(a_height) - 1))

\* a_ave
a_ave_of(a_height) == RDiv(sum(a_height), R(len(a_height)))

\* a_adjust: for each stepper, a_ave - a
a_adjust_of(a_height) ==
    List4(RSub(a_ave_of(a_height), a_height[0]),
          RSub(a_ave_of(a_height), a_height[1]),
          RSub(a_ave_of(a_height), a_height[2]),
          RSub(a_ave_of(a_height), a_height[3]))

\* the outcome of lines 68-127 when a line fit raised
Failed(e, a_positions) == [raised |-> e, a_positions |-> a_positions]

\* lines 68-127 of probe_finalize: the values it has computed when it reaches
\* the max_adjust gate, or the exception a line fit raised on the way
compute_adjust(horizontal_move_a, gantry_corners, offsets, positions) ==
    LET a_positions == mirror(horizontal_move_a, positions)
        ppx0 == Pair(RAdd(positions[0][0], offsets[0]), a_positions[0])
        ppx3 == Pair(RAdd(positions[3][0], offsets[0]), a_positions[3])
        slope_x_pp03 == linefit(ppx0, ppx3)
        ppx1 == Pair(RAdd(positions[1][0], offsets[0]), a_positions[1])
        ppx2 == Pair(RAdd(positions[2][0], offsets[0]), a_positions[2])
        slope_x_pp12 == linefit(ppx1, ppx2)
        a1 == Pair(RAdd(positions[0][1], offsets[1]),
                   plot(slope_x_pp03, gantry_corners[0][0]))
        a2 == Pair(RAdd(positions[1][1], offsets[1]),
                   plot(slope_x_pp12, gantry_corners[0][0]))
        slope_y_s01 == linefit(a1, a2)
        b1 == Pair(RAdd(positions[0][1], offsets[1]),
                   plot(slope_x_pp03, gantry_corners[1][0]))
        b2 == Pair(RAdd(positions[1][1], offsets[1]),
                   plot(slope_x_pp12, gantry_corners[1][0]))
        slope_y_s23 == linefit(b1, b2)
        a_height == a_height_of(slope_y_s01, slope_y_s23, gantry_corners)
    IN  IF slope_x_pp03.raised # "none"
        THEN Failed(slope_x_pp03.raised, a_positions)
        ELSE IF slope_x_pp12.raised # "none"
        THEN Failed(slope_x_pp12.raised, a_positions)
        ELSE IF slope_y_s01.raised # "none"
        THEN Failed(slope_y_s01.raised, a_positions)
        ELSE IF slope_y_s23.raised # "none"
        THEN Failed(slope_y_s23.raised, a_positions)
        ELSE [raised |-> "none",
              a_positions |-> a_positions,
              slope_x_pp03 |-> slope_x_pp03,
              slope_x_pp12 |-> slope_x_pp12,
              slope_y_s01 |-> slope_y_s01,
              slope_y_s23 |-> slope_y_s23,
              a_height |-> a_height,
              a_ave |-> a_ave_of(a_height),
              a_adjust |-> a_adjust_of(a_height)]

----------------------------------------------------------------------------
(* The max_adjust gate, the collaborators and the configuration. *)

\* lines 129-130: adjust_max = max(a_adjust); adjust_max > self.max_adjust
exceeds_max_adjust(a_adjust, max_adjust) == RLess(max_adjust, max(a_adjust))

\* the collaborator calls of a round, with the adjustment vector handed to
\* check_retry as well
finalize_calls_adjust_to_retry(a_adjust, a_positions, speed) ==
    << [fn |-> "adjust_steppers", adjust |-> a_adjust, speed |-> speed],
       [fn |-> "check_retry", measurement |-> a_adjust] >>

\* lines 138-142: the collaborator calls of a round that passed the gate
finalize_calls(a_adjust, a_positions, speed) ==
    << [fn |-> "adjust_steppers", adjust |-> a_adjust, speed |-> speed],
       [fn |-> "check_retry", measurement |-> a_positions] >>

\* the retry helper's convergence predicate: the spread of the measurement
WithinTolerance(measurement, retry_tolerance) ==
    RLeq(RSub(max(measurement), min(measurement)), retry_tolerance)

\* RetryHelper.check_retry: the result and the attempt counter afterwards
check_retry(measurement, retry, max_retries, retry_tolerance) ==
    IF WithinTolerance(measurement, retry_tolerance)
    THEN [result |-> "done", current_retry |-> retry]
    ELSE IF retry + 1 > max_retries
         THEN [result |-> "error", current_retry |-> retry + 1]
         ELSE [result |-> "retry", current_retry |-> retry + 1]

\* the probe's offsets (x, y, z)
Offsets(x, y, z) == (0 :> x) @@ (1 :> y) @@ (2 :> z)

\* a probe sample [x, y, z, a]
Sample(x, y, a) == List4(x, y, Zero, a)

\* values a probe sample's auxiliary axis takes
AuxVals == {R(n) : n \in 0..MaxAux}

\* Configured machines: the XY of the four probe points, the probe's offsets
\* and lift speed, and two gantry corners.
\*   "square"   gantry corners on the probe points 0 and 2
\*   "outside"  gantry corners outside the probed rectangle, offset probe
\*   "samex"    probe points 0 and 3 at the same X
Layouts ==
    { [name |-> "square",
       points |-> List4(Pair(R(0), R(0)), Pair(R(0), R(3)),
                        Pair(R(3), R(3)), Pair(R(3), R(0))),
       offsets |-> Offsets(Zero, Zero, Zero),
       lift_speed |-> 5,
       corners |-> Pair(Pair(R(0), R(0)), Pair(R(3), R(3)))],
      [name |-> "outside",
       points |-> List4(Pair(R(1), R(1)), Pair(R(1), R(4)),
                        Pair(R(4), R(4)), Pair(R(4), R(1))),
       offsets |-> Offsets(R(-1), R(1), Zero),
       lift_speed |-> 10,
       corners |-> Pair(Pair(R(-2), R(-1)), Pair(R(5), R(6)))],
      [name |-> "samex",
       points |-> List4(Pair(R(0), R(0)), Pair(R(0), R(3)),
                        Pair(R(3), R(3)), Pair(R(0), R(1))),
       offsets |-> Offsets(Zero, Zero, Zero),
       lift_speed |-> 5,
       corners |-> Pair(Pair(R(0), R(0)), Pair(R(3), R(3)))] }

\* the configuration sections the constructor may be given
Configs ==
    [ npoints : (NumProbePoints - 1)..(NumProbePoints + 1),
      ncorners : (MinGantryCorners - 1)..MinGantryCorners,
      max_adjust : {<<1, 2>>, R(DefaultMaxAdjust)},
      horizontal_move_a : {R(DefaultHorizontalMoveA)},
      layout : Layouts,
      retries : 0..MaxRetries,
      retry_tolerance : {R(0), R(1)} ]

----------------------------------------------------------------------------
(* State. *)

VARIABLES
    cfg,            \* the configuration section handed to the constructor
    setup,          \* "unloaded", "loaded", or "config_error" (constructor raised)
    registered,     \* JUST_A_QUAD_GANTRY_LEVEL is registered with gcode
    state,          \* the session: "Idle", "Probing", "Converged", "Aborted"
    error,          \* what ended the session: "none", "max_adjust", "retries",
                    \*   "ZeroDivisionError"
    current_retry,  \* retry_helper's attempt counter
    applied,        \* a_status: the last run converged
    rounds,         \* probe_finalize calls of the current command
    moves,          \* adjust_steppers calls of the current command
    calls,          \* collaborator calls of the latest probe_finalize, in order
    sampled,        \* auxiliary-axis samples of the latest probing round
    last,           \* what the latest probe_finalize computed
    args,           \* arguments of a stand-alone call of linefit / lines 68-127
    result          \* what that call produced

vars == <<cfg, setup, registered, state, error, current_retry, applied,
          rounds, moves, calls, sampled, last, args, result>>

session_vars == <<state, error, current_retry, applied, rounds, moves, calls,
                  sampled, last>>

Terminal == {"Converged", "Aborted"}

NoRound == [raised |-> "no round"]
NoCall == [op |-> "none"]

\* self.probe_helper.probe_points: XY of the configured probe points
probe_points ==
    [i \in 0..(cfg.npoints - 1) |->
        IF i < NumProbePoints THEN cfg.layout.points[i] ELSE Pair(R(2), R(2))]

\* self.gantry_corners
gantry_corners ==
    [i \in 0..(cfg.ncorners - 1) |->
        IF i < MinGantryCorners THEN cfg.layout.corners[i] ELSE Pair(R(2), R(2))]

\* the positions a probing round hands to probe_finalize: the configured XY
\* of each probe point with the sample aux[i] on the auxiliary axis
probed(aux) ==
    List4(Sample(probe_points[0][0], probe_points[0][1], aux[0]),
          Sample(probe_points[1][0], probe_points[1][1], aux[1]),
          Sample(probe_points[2][0], probe_points[2][1], aux[2]),
          Sample(probe_points[3][0], probe_points[3][1], aux[3]))

SessionInit ==
    /\ setup = "unloaded"
    /\ registered = FALSE
    /\ state = "Idle"
    /\ error = "none"
    /\ current_retry = 0
    /\ applied = FALSE
    /\ rounds = 0
    /\ moves = 0
    /\ calls = <<>>
    /\ sampled = <<>>
    /\ last = NoRound

Init ==
    /\ cfg \in Configs
    /\ SessionInit
    /\ args = NoCall
    /\ result = NoCall

----------------------------------------------------------------------------
(* Operations. *)

\* the constructor rejecting only fewer than four probe points
init_accepts_more_points ==
    /\ setup = "unloaded"
    /\ IF len(probe_points) < NumProbePoints
       THEN setup' = "config_error" /\ registered' = FALSE
       ELSE IF len(gantry_corners) < MinGantryCorners
            THEN setup' = "config_error" /\ registered' = FALSE
            ELSE setup' = "loaded" /\ registered' = TRUE
    /\ UNCHANGED <<cfg, session_vars, args, result>>

\* QuadGantryLevel.__init__
init ==
    /\ setup = "unloaded"
    /\ IF len(probe_points) # NumProbePoints
       THEN setup' = "config_error" /\ registered' = FALSE
       ELSE IF len(gantry_corners) < MinGantryCorners
            THEN setup' = "config_error" /\ registered' = FALSE
            ELSE setup' = "loaded" /\ registered' = TRUE
    /\ UNCHANGED <<cfg, session_vars, args, result>>

\* the command without retry_helper.start(gcmd)
cmd_without_start ==
    /\ registered
    /\ state # "Probing"
    /\ applied' = FALSE
    /\ state' = "Probing"
    /\ error' = "none"
    /\ rounds' = 0
    /\ moves' = 0
    /\ calls' = <<>>
    /\ sampled' = <<>>
    /\ last' = NoRound
    /\ UNCHANGED <<cfg, setup, registered, current_retry, args, result>>

\* QuadGantryLevel.cmd_JUST_A_QUAD_GANTRY_LEVEL, up to the first probing round
cmd_JUST_A_QUAD_GANTRY_LEVEL ==
    /\ registered
    /\ state # "Probing"
    /\ applied' = FALSE
    /\ current_retry' = 0
    /\ state' = "Probing"
    /\ error' = "none"
    /\ rounds' = 0
    /\ moves' = 0
    /\ calls' = <<>>
    /\ sampled' = <<>>
    /\ last' = NoRound
    /\ UNCHANGED <<cfg, setup, registered, args, result>>

\* QuadGantryLevel.probe_finalize, called by the probe helper with the
\* offsets and the four samples of a completed probing round
probe_finalize ==
    /\ state = "Probing"
    /\ \E aux \in [0..3 -> AuxVals] :
       /\ sampled' = aux
       /\ \E positions \in {probed(aux)}, corners \in {gantry_corners} :
          \E c \in {compute_adjust(cfg.horizontal_move_a, corners,
                                   cfg.layout.offsets, positions)} :
            /\ last' = c
            /\ rounds' = rounds + 1
            /\ IF c.raised # "none"
               THEN /\ state' = "Aborted"
                    /\ error' = c.raised
                    /\ calls' = <<>>
                    /\ UNCHANGED <<moves, current_retry, applied>>
               ELSE IF exceeds_max_adjust(c.a_adjust, cfg.max_adjust)
               THEN /\ state' = "Aborted"
                    /\ error' = "max_adjust"
                    /\ calls' = <<>>
                    /\ UNCHANGED <<moves, current_retry, applied>>
               ELSE \E r \in {check_retry(c.a_positions, current_retry,
                                          cfg.retries, cfg.retry_tolerance)} :
                        /\ calls' = finalize_calls(c.a_adjust, c.a_positions,
                                                   cfg.layout.lift_speed)
                        /\ moves' = moves + 1
                        /\ current_retry' = r.current_retry
                        /\ applied' = (r.result = "done")
                        /\ state' = CASE r.result = "done" -> "Converged"
                                      [] r.result = "retry" -> "Probing"
                                      [] r.result = "error" -> "Aborted"
                        /\ error' = IF r.result = "error" THEN "retries"
                                                          ELSE "none"
    /\ UNCHANGED <<cfg, setup, registered, args, result>>

Next == init \/ cmd_JUST_A_QUAD_GANTRY_LEVEL \/ probe_finalize

Spec == Init /\ [][Next]_vars

\* The probe helper completes every probing round it starts: weak fairness
\* of probe_finalize.  This is WF_vars(probe_finalize) with
\* ENABLED <<probe_finalize>>_vars written out: probe_finalize has the one
\* guard state = "Probing", and each of its steps increments rounds.
ProbeFairness ==
    []<>(state # "Probing") \/ []<><<probe_finalize>>_vars

FairSpec == Spec /\ ProbeFairness

----------------------------------------------------------------------------
(* Stand-alone calls of the pure functions: linefit, and lines 68-127 of   *)
(* probe_finalize.  The arguments are drawn in the initial state and the   *)
(* call is one step.                                                       *)

\* coordinates of the points handed to linefit
FitCoords == {R(-1), R(0), <<1, 2>>, R(2)}

\* X and Y of the probe points handed to probe_finalize
ProbeXs == {R(0), R(3)}
ProbeYs == {R(0), R(3)}

\* gantry corners: on the probed rectangle, outside it, with the X order
\* reversed, and both at one place
CornerChoices ==
    { Pair(Pair(R(0), R(0)), Pair(R(3), R(3))),
      Pair(Pair(R(-2), R(-1)), Pair(R(5), R(6))),
      Pair(Pair(R(3), R(0)), Pair(R(0), R(3))),
      Pair(Pair(R(1), R(1)), Pair(R(1), R(1))) }

OffsetChoices == {Offsets(Zero, Zero, Zero), Offsets(R(-1), R(1), R(2))}

HMoves == {R(DefaultHorizontalMoveA), Zero}

\* a configuration the stand-alone calls leave untouched
IdleConfig ==
    [ npoints |-> NumProbePoints,
      ncorners |-> MinGantryCorners,
      max_adjust |-> R(DefaultMaxAdjust),
      horizontal_move_a |-> R(DefaultHorizontalMoveA),
      layout |-> CHOOSE l \in Layouts : l.name = "square",
      retries |-> 0,
      retry_tolerance |-> Zero ]

InitCalc ==
    /\ cfg = IdleConfig
    /\ SessionInit
    /\ result = NoCall
    /\ \/ \E x1 \in FitCoords, y1 \in FitCoords, x2 \in FitCoords, y2 \in FitCoords :
            args = [op |-> "linefit", p1 |-> Pair(x1, y1), p2 |-> Pair(x2, y2)]
       \/ \E h \in HMoves, gc \in CornerChoices, off \in OffsetChoices,
             xs \in [0..3 -> ProbeXs], ys \in [0..1 -> ProbeYs],
             aux \in [0..3 -> AuxVals] :
            args = [op |-> "compute_adjust",
                    horizontal_move_a |-> h,
                    gantry_corners |-> gc,
                    offsets |-> off,
                    positions |-> List4(Sample(xs[0], ys[0], aux[0]),
                                        Sample(xs[1], ys[1], aux[1]),
                                        Sample(xs[2], ys[1], aux[2]),
                                        Sample(xs[3], ys[0], aux[3]))]

call_linefit ==
    /\ args.op = "linefit"
    /\ result = NoCall
    /\ result' = [op |-> "linefit", out |-> linefit(args.p1, args.p2)]
    /\ UNCHANGED <<cfg, setup, registered, session_vars, args>>

call_compute_adjust ==
    /\ args.op = "compute_adjust"
    /\ result = NoCall
    /\ result' = [op |-> "compute_adjust",
                  out |-> compute_adjust(args.horizontal_move_a,
                                         args.gantry_corners,
                                         args.offsets, args.positions)]
    /\ UNCHANGED <<cfg, setup, registered, session_vars, args>>

NextCalc == call_linefit \/ call_compute_adjust

SpecCalc == InitCalc /\ [][NextCalc]_vars

----------------------------------------------------------------------------
(* Properties of the session (checked under Spec and FairSpec). *)

\* the latest round reached the max_adjust gate
ReachedGate == rounds > 0 /\ last.raised = "none"

\* C1: in every round, if the absolute value of any of the four adjustments
\* exceeds max_adjust (a negative one below -max_adjust included), the
\* session aborts with the max_adjust error and adjust_steppers is not called
\* in that round.
C1_AbsGateAborts ==
    (ReachedGate /\ \E i \in 0..3 : RLess(cfg.max_adjust, RAbs(last.a_adjust[i])))
        => (state = "Aborted" /\ error = "max_adjust" /\ calls = <<>>)

\* a step that starts probing from a state that was not probing: a command
CmdResets ==
    (state # "Probing" /\ state' = "Probing")
        => (current_retry' = 0 /\ rounds' = 0 /\ moves' = 0)

\* a round that called check_retry with a measurement not within tolerance
RetryCounts ==
    (rounds' = rounds + 1 /\ Len(calls') = 2
        /\ ~WithinTolerance(last'.a_positions, cfg.retry_tolerance))
        => (current_retry' = current_retry + 1
            /\ state' = (IF current_retry' > cfg.retries THEN "Aborted"
                                                         ELSE "Probing"))

\* from a terminal state: nothing, or a new command
TerminalStays ==
    (state \in Terminal)
        => ((state' = state /\ rounds' = rounds /\ moves' = moves)
            \/ (state' = "Probing" /\ rounds' = 0 /\ moves' = 0))

\* C6: a command resets the attempt counter to 0; a round whose measurement
\* is not within tolerance increments it, and the session is Aborted once it
\* exceeds the configured retries, else probing goes on; so a command makes
\* at most retries + 1 rounds, every probing session reaches Converged or
\* Aborted, and from there no round and no move happens until a new command.
C6_RetryBound ==
    /\ [][CmdResets]_vars
    /\ [][RetryCounts]_vars
    /\ [](rounds <= cfg.retries + 1)
    /\ [](state = "Probing" => <>(state \in Terminal))
    /\ [][TerminalStays]_vars

\* C6 witness: a command that used its whole retry budget and was aborted
C6_Witness ==
    /\ state = "Aborted" /\ error = "retries"
    /\ cfg.retries >= 1
    /\ rounds = cfg.retries + 1
    /\ moves = rounds
    /\ current_retry = cfg.retries + 1

\* C7: construction fails with a configuration error when the number of
\* probe points is not 4 or fewer than 2 gantry corners are configured, and
\* then the command is never registered and no session ever starts.
C7_SetupRejects ==
    /\ (setup # "unloaded" /\ (cfg.npoints # 4 \/ cfg.ncorners < 2))
          => (setup = "config_error" /\ ~registered /\ state = "Idle"
              /\ rounds = 0 /\ moves = 0)
    /\ (setup # "unloaded" /\ cfg.npoints = 4 /\ cfg.ncorners >= 2)
          => (setup = "loaded" /\ registered)
    /\ state # "Idle" => registered

\* C7 witness: five probe points with two corners were rejected
C7_Witness ==
    setup = "config_error" /\ cfg.npoints = 5 /\ cfg.ncorners = 2 /\ ~registered

\* C8: the max_adjust gate comes first in every round.  When it fails the
\* session is Aborted whatever retry budget remains and neither
\* adjust_steppers nor check_retry is called; when it passes adjust_steppers
\* is called once with the round's adjustment vector at the lift speed and
\* then check_retry with the round's mirrored positions.
C8_GateOrder ==
    ReachedGate =>
        IF \E i \in 0..3 : RLess(cfg.max_adjust, last.a_adjust[i])
        THEN /\ state = "Aborted" /\ error = "max_adjust"
             /\ calls = <<>>
             /\ moves = rounds - 1
        ELSE /\ Len(calls) = 2
             /\ calls[1] = [fn |-> "adjust_steppers", adjust |-> last.a_adjust,
                            speed |-> cfg.layout.lift_speed]
             /\ calls[2] = [fn |-> "check_retry",
                            measurement |-> last.a_positions]
             /\ moves = rounds

\* C8 witness: the gate failed in a second round, after a first round that
\* moved the steppers and was granted a retry
C8_Witness ==
    /\ rounds = 2 /\ moves = 1
    /\ state = "Aborted" /\ error = "max_adjust"
    /\ current_retry = 1 /\ current_retry <= cfg.retries

----------------------------------------------------------------------------
(* Properties of the pure functions (checked under SpecCalc). *)

LinefitDone == result.op = "linefit"
ComputeDone == result.op = "compute_adjust"
Computed == ComputeDone /\ result.out.raised = "none"

\* the mirrored sample i of the call's arguments
ArgA(i) == RSub(args.horizontal_move_a, args.positions[i][3])
\* the offset-corrected X and Y of sample i
ArgX(i) == RAdd(args.positions[i][0], args.offsets[0])
ArgY(i) == RAdd(args.positions[i][1], args.offsets[1])

\* C2: linefit returns a (slope, intercept) pair for every pair of points,
\* and probe_finalize never fails inside a line fit.
C2_NeverRaises ==
    /\ LinefitDone => result.out.raised = "none"
    /\ ComputeDone => result.out.raised = "none"

\* C3: each adjustment is the mean of the four actuator heights minus that
\* actuator's height, and the four adjustments sum to zero.
C3_MeanDeviation ==
    Computed =>
        LET h == result.out.a_height
            mean == RDiv(RAdd(RAdd(h[0], h[1]), RAdd(h[2], h[3])), R(4))
            adj == result.out.a_adjust
        IN  /\ \A i \in 0..3 : adj[i] = RSub(mean, h[i])
            /\ RAdd(RAdd(adj[0], adj[1]), RAdd(adj[2], adj[3])) = Zero

\* C3 witness: a computed vector with unequal heights
C3_Witness ==
    /\ Computed
    /\ result.out.a_height[0] # result.out.a_height[2]
    /\ result.out.a_adjust[0] # Zero

\* C4: if all four samples have the same auxiliary-axis value then, for any
\* probe XY, offsets and corners, the four fits are flat, the four heights
\* are equal and the adjustments are all zero, so the gate cannot abort.
C4_LevelIsZero ==
    (ComputeDone /\ \A i \in 1..3 : args.positions[i][3] = args.positions[0][3])
        => /\ result.out.raised = "none"
           /\ result.out.slope_x_pp03.m = Zero /\ result.out.slope_x_pp12.m = Zero
           /\ result.out.slope_y_s01.m = Zero /\ result.out.slope_y_s23.m = Zero
           /\ \A i \in 1..3 : result.out.a_height[i] = result.out.a_height[0]
           /\ result.out.a_adjust = List4(Zero, Zero, Zero, Zero)
           /\ ~exceeds_max_adjust(result.out.a_adjust, <<1, 1000>>)

\* C4 witness: equal samples probed at coinciding X and Y positions
C4_Witness ==
    /\ ComputeDone
    /\ \A i \in 1..3 : args.positions[i][3] = args.positions[0][3]
    /\ args.positions[0][3] # Zero
    /\ args.positions[0][0] = args.positions[3][0]
    /\ args.positions[0][1] = args.positions[1][1]
    /\ result.out.raised = "none"

\* slopes and intercepts a line could have, for the uniqueness part of C5
FitCandidates == {Norm(n, d) : n \in -6..6, d \in 1..3}

\* C5: for two points of equal height linefit returns slope 0 and that
\* height as intercept whatever the x values; for points of different
\* heights and different x it returns the unique line through both.
C5_LinefitContract ==
    LinefitDone =>
        LET x1 == args.p1[0]  y1 == args.p1[1]
            x2 == args.p2[0]  y2 == args.p2[1]
            f == result.out
        IN  /\ y1 = y2 => f = Returned(Zero, y1)
            /\ (y1 # y2 /\ x1 # x2) =>
                 /\ f.raised = "none"
                 /\ RAdd(RMul(f.m, x1), f.b) = y1
                 /\ RAdd(RMul(f.m, x2), f.b) = y2
                 /\ \A m \in FitCandidates, b \in FitCandidates :
                        (RAdd(RMul(m, x1), b) = y1 /\ RAdd(RMul(m, x2), b) = y2)
                            => (m = f.m /\ b = f.b)

\* C5 witness: equal heights at equal x
C5_Witness ==
    /\ LinefitDone
    /\ args.p1[1] = args.p2[1] /\ args.p1[0] = args.p2[0]
    /\ args.p1[1] # Zero
    /\ result.out.raised = "none"

\* C9: the heights use the crossed corner mapping: height 0 and 1 are
\* slope_y_s01 at the Y of corners 0 and 1, height 2 and 3 are slope_y_s23 at
\* the Y of corners 1 and 0; the Y fits go through the X fits of probe pairs
\* (0,3) and (1,2) evaluated at the X of corner 0 and corner 1, over the
\* offset-corrected Y of probes 0 and 1.
C9_CrossedMapping ==
    Computed =>
        LET gc == args.gantry_corners
            fx03 == linefit(Pair(ArgX(0), ArgA(0)), Pair(ArgX(3), ArgA(3)))
            fx12 == linefit(Pair(ArgX(1), ArgA(1)), Pair(ArgX(2), ArgA(2)))
            fy01 == linefit(Pair(ArgY(0), plot(fx03, gc[0][0])),
                            Pair(ArgY(1), plot(fx12, gc[0][0])))
            fy23 == linefit(Pair(ArgY(0), plot(fx03, gc[1][0])),
                            Pair(ArgY(1), plot(fx12, gc[1][0])))
            h == result.out.a_height
        IN  /\ result.out.slope_y_s01 = fy01
            /\ result.out.slope_y_s23 = fy23
            /\ h[0] = RAdd(RMul(fy01.m, gc[0][1]), fy01.b)
            /\ h[1] = RAdd(RMul(fy01.m, gc[1][1]), fy01.b)
            /\ h[2] = RAdd(RMul(fy23.m, gc[1][1]), fy23.b)
            /\ h[3] = RAdd(RMul(fy23.m, gc[0][1]), fy23.b)

\* C9 witness: a twisted gantry, where the crossing shows
C9_Witness ==
    /\ Computed
    /\ args.gantry_corners[0][1] # args.gantry_corners[1][1]
    /\ result.out.slope_y_s23.m # Zero
    /\ result.out.slope_y_s01.m # result.out.slope_y_s23.m
    /\ result.out.a_height[2] # result.out.a_height[3]

\* other values of horizontal_move_a
OtherHMoves == {Zero, R(DefaultHorizontalMoveA), R(-3), <<7, 2>>}

\* C10: the adjustment vector does not depend on horizontal_move_a: with any
\* other value and the same samples, offsets and corners the computation
\* ends the same way and gives the same four adjustments.
C10_HMoveIndependent ==
    ComputeDone =>
        \A h \in OtherHMoves :
            LET o == compute_adjust(h, args.gantry_corners, args.offsets,
                                    args.positions)
            IN  /\ o.raised = result.out.raised
                /\ o.raised = "none" => o.a_adjust = result.out.a_adjust

\* C10 witness: a non-zero adjustment vector with one flat X fit
C10_Witness ==
    /\ Computed
    /\ args.horizontal_move_a # Zero
    /\ result.out.slope_x_pp03.m = Zero
    /\ result.out.a_adjust[0] # Zero

====
